---- MODULE Spec2Model ----
(***************************************************************************)
(* Patient splitting of slideflow/dataset/dataset_utils.py:                *)
(*   split_patients, split_patients_balanced,                              *)
(*   split_patients_preserved_site                                         *)
(* Each call is one action: it draws the shuffle (and, where the code      *)
(* iterates a set, the set's iteration order) and computes the returned    *)
(* list of groups, or the exception the call ends with.                    *)
(***************************************************************************)
EXTENDS Integers, Sequences, FiniteSets, TLC

\* ---------------------------------------------------------------- bounds
MaxPatients == 4
MaxLabels == 2
MaxSites == 2
MaxN == 3
MaxTimeout == 1
MaxCallerPatients == 2
MaxSlides == 2
MaxQSize == 2
MaxOSErrors == 1
MaxTileSlides == 4

\* ------------------------------------------------------------- variables
\* one call of a splitting function
VARIABLES patients_dict, n, pc, called, patient_list, unique_labels,
          cv_column, result, error, solver_calls

\* the clock of a solver invocation and the time its caller will wait
VARIABLES elapsed, timeout

\* independent callers of the splitting functions, one entry per caller
VARIABLES c_patients, c_n, c_called, c_pc, c_list, c_result

\* _fill_queue, its queue and the consumers of the queue
VARIABLES slide_list, buffer, q_size, q_maxsize, q_items, unfinished, f_pc,
          f_idx, warned, put_log, os_errors

\* _tile_extractor calls of a worker on the shared reports dict
VARIABLES reports, e_path, e_prepare, e_extract, e_pc

split_vars == <<patients_dict, n, pc, called, patient_list, unique_labels,
                cv_column, result, error, solver_calls>>
timed_vars == <<elapsed, timeout>>
caller_vars == <<c_patients, c_n, c_called, c_pc, c_list, c_result>>
queue_vars == <<slide_list, buffer, q_size, q_maxsize, q_items, unfinished,
                f_pc, f_idx, warned, put_log, os_errors>>
extract_vars == <<reports, e_path, e_prepare, e_extract, e_pc>>

vars == <<split_vars, timed_vars, caller_vars, queue_vars, extract_vars>>

\* the parts of the state a specification does not use stay as they start
split_unused ==
  /\ patients_dict = <<>> /\ n = 0 /\ pc = "unused" /\ called = "none"
  /\ patient_list = <<>> /\ unique_labels = <<>> /\ cv_column = <<>>
  /\ result = <<>> /\ error = "none" /\ solver_calls = 0
timed_unused == elapsed = 0 /\ timeout = 0
caller_unused ==
  /\ c_patients = <<>> /\ c_n = <<>> /\ c_called = <<>> /\ c_pc = <<>>
  /\ c_list = <<>> /\ c_result = <<>>
queue_unused ==
  /\ slide_list = <<>> /\ buffer = FALSE /\ q_size = 0 /\ q_maxsize = 0
  /\ q_items = <<>>
  /\ unfinished = 0 /\ f_pc = "unused" /\ f_idx = 0 /\ warned = FALSE
  /\ put_log = <<>> /\ os_errors = 0
extract_unused ==
  /\ reports = {} /\ e_path = 0 /\ e_prepare = "none" /\ e_extract = "none"
  /\ e_pc = "unused"

\* the annotation header the balanced splits are asked to balance on
balance == "outcome"

Labels == 1..MaxLabels
Sites == 1..MaxSites

\* the three splitting functions a caller can invoke
Functions ==
  {"split_patients", "split_patients_balanced",
   "split_patients_preserved_site"}

Min(a, b) == IF a < b THEN a ELSE b

\* A patient's record: a dict of annotation headers. Cohorts for the two
\* functions that never read 'site' carry the outcome only; every cohort may
\* hold records that lack a header the function reads. The fold assignment
\* of the site solver is modelled as independent of the outcome column, so
\* the site cohorts carry, per site, the first outcome or the outcome
\* numbered like the site.
Records(f) ==
  IF f = "split_patients_preserved_site"
    THEN { r \in [outcome : Labels, site : Sites] :
             r.outcome \in {1, Min(r.site, MaxLabels)} }
           \cup {[outcome |-> 1], [site |-> 1]}
    ELSE [outcome : Labels] \cup {[site |-> 1]}

\* Patients are opaque keys and every call shuffles them, so cohorts are
\* enumerated up to renaming of the patients: records in nondecreasing rank.
Rank(r) ==
  (IF "outcome" \in DOMAIN r THEN r.outcome ELSE 0) * (MaxSites + 1)
    + (IF "site" \in DOMAIN r THEN r.site ELSE 0)

Cohorts(f) ==
  UNION { { d \in [1..k -> Records(f)] :
              \A i \in 1..k : \A j \in 1..k :
                 i < j => Rank(d[i]) <= Rank(d[j]) } : k \in 0..MaxPatients }

\* -------------------------------------------------------------- helpers
\* random.shuffle(list(patients_dict.keys())): any order of the keys
Shuffles(S) ==
  { f \in [1..Cardinality(S) -> S] :
      \A i \in DOMAIN f : \A j \in DOMAIN f : f[i] = f[j] => i = j }

\* str(k) for a positive integer: its decimal digits
RECURSIVE str(_)
str(k) == IF k < 10 THEN <<k>> ELSE str(k \div 10) \o <<k % 10>>

RECURSIVE flatten(_)
flatten(arr) ==
  IF Len(arr) = 0 THEN <<>> ELSE Head(arr) \o flatten(Tail(arr))

\* sf.util.split_list(a, n): n contiguous chunks, the remainder going to the
\* earliest chunks
split_list(a, k) ==
  LET q == Len(a) \div k
      m == Len(a) % k
  IN  [i \in 1..k |->
         SubSeq(a, (i - 1) * q + Min(i - 1, m) + 1, i * q + Min(i, m))]

\* a split count the chunking cannot divide by
split_list_raises(k) == k <= 0

\* ------------------------------------------------- split_patients (plain)
\* variant: the slice patient_list[1:] is split, losing the first patient
plain_splits_slice(pl, k) ==
  IF Len(pl) = 0 THEN split_list(pl, k) ELSE split_list(Tail(pl), k)

\* variant: one chunk too many is asked for
plain_splits_extra(pl, k) == split_list(pl, k + 1)

\* list(sf.util.split_list(patient_list, n))
plain_splits(pl, k) == split_list(pl, k)

\* ------------------------------------------------ split_patients_balanced
\* patients_dict[p][key] raises KeyError for a record without the header
missing_key(d, pl, key) ==
  \E i \in 1..Len(pl) : key \notin DOMAIN d[pl[i]]

patient_outcome_labels(d, pl) ==
  [i \in 1..Len(pl) |-> d[pl[i]][balance]]

\* set(patient_outcome_labels); list(set(..)) has it in any order
label_set(d, pl) ==
  { patient_outcome_labels(d, pl)[i] : i \in 1..Len(pl) }

pt_by_outcome(d, pl, ul) ==
  [j \in 1..Len(ul) |->
     SelectSeq(pl, LAMBDA p : d[p][balance] = ul[j])]

pt_by_outcome_by_n(d, pl, ul, k) ==
  [j \in 1..Len(ul) |-> split_list(pt_by_outcome(d, pl, ul)[j], k)]

\* variant: item[0] in place of item[ni], every group joins the first chunks
splits_chunk0(d, pl, ul, k) ==
  [ni \in 1..k |->
     flatten([j \in 1..Len(ul) |-> pt_by_outcome_by_n(d, pl, ul, k)[j][1]])]

\* variant: the shuffled list is chunked directly, the sublists are unused
splits_unbalanced(d, pl, ul, k) ==
  IF k = 0 THEN <<>> ELSE split_list(pl, k)

\* variant: the chunks are joined from the last one backwards
splits_reversed(d, pl, ul, k) ==
  [ni \in 1..k |->
     flatten([j \in 1..Len(ul) |->
                pt_by_outcome_by_n(d, pl, ul, k)[j][k + 1 - ni]])]

\* group ni (1-based here) joins chunk ni of every outcome's sublist
splits(d, pl, ul, k) ==
  [ni \in 1..k |->
     flatten([j \in 1..Len(ul) |-> pt_by_outcome_by_n(d, pl, ul, k)[j][ni]])]

\* ------------------------------------------ split_patients_preserved_site
site_list(d, pl) == [i \in 1..Len(pl) |-> d[pl[i]]["site"]]

\* cv.generate(df, 'outcome_label', k=n, target_column='CV'): on success
\* every row gets the fold index (as a string) of its site, one fold per
\* site, folds numbered 1..k
generate(d, pl, k) ==
  LET used == { site_list(d, pl)[i] : i \in 1..Len(pl) }
  IN  { [i \in 1..Len(pl) |-> str(f[site_list(d, pl)[i]])] :
          f \in [used -> 1..k] }

\* the error kinds a solver invocation can end with
generate_errors == {"SolverUnavailable", "InfeasibleSplit"}

\* variant: rows are dealt to the groups by position, the CV column unread
site_splits_by_row(pl, cv, k) ==
  [g \in 1..k |->
     LET rows == SelectSeq([i \in 1..Len(pl) |-> i],
                           LAMBDA i : ((i - 1) % k) + 1 = g)
     IN  [j \in 1..Len(rows) |-> pl[rows[j]]]]

\* variant: str(ni) in place of str(ni+1), group g reads fold g - 1
site_splits_off_by_one(pl, cv, k) ==
  [g \in 1..k |->
     LET rows == SelectSeq([i \in 1..Len(pl) |-> i],
                           LAMBDA i : cv[i] = str(g - 1))
     IN  [j \in 1..Len(rows) |-> pl[rows[j]]]]

\* variant: only the folds that received a patient become groups
site_splits_nonempty(pl, cv, k) ==
  SelectSeq([g \in 1..k |->
               LET rows == SelectSeq([i \in 1..Len(pl) |-> i],
                                     LAMBDA i : cv[i] = str(g))
               IN  [j \in 1..Len(rows) |-> pl[rows[j]]]],
            LAMBDA grp : Len(grp) > 0)

\* df.loc[df.CV == str(ni+1), "patient"].tolist() for ni in range(n);
\* groups are 1-based here, so group g holds the rows with CV == str(g)
site_splits(pl, cv, k) ==
  [g \in 1..k |->
     LET rows == SelectSeq([i \in 1..Len(pl) |-> i],
                           LAMBDA i : cv[i] = str(g))
     IN  [j \in 1..Len(rows) |-> pl[rows[j]]]]

\* ------------------------------------------------------------------ Init
\* a caller is about to invoke `called` on the cohort with split count n
Init ==
  /\ called \in Functions
  /\ patients_dict \in Cohorts(called)
  /\ n \in 0..MaxN
  /\ pc = "idle"
  /\ patient_list = <<>>
  /\ unique_labels = <<>>
  /\ cv_column = <<>>
  /\ result = <<>>
  /\ error = "none"
  /\ solver_calls = 0
  /\ timed_unused
  /\ caller_unused
  /\ queue_unused
  /\ extract_unused

Raise(kind) ==
  /\ pc' = "raised"
  /\ error' = kind
  /\ result' = <<>>

Return(groups) ==
  /\ pc' = "returned"
  /\ error' = "none"
  /\ result' = groups

\* --------------------------------------------------------------- actions
split_patients ==
  /\ pc = "idle"
  /\ called = "split_patients"
  /\ \E pl \in Shuffles(DOMAIN patients_dict) :
       /\ patient_list' = pl
       /\ IF split_list_raises(n)
            THEN Raise("InvalidArgument")
            ELSE Return(plain_splits(pl, n))
  /\ UNCHANGED <<patients_dict, n, called, unique_labels, cv_column,
                 solver_calls>>
  /\ UNCHANGED <<timed_vars, caller_vars, queue_vars, extract_vars>>

\* variant: records without the balance header are skipped, not looked up
split_patients_balanced_skip ==
  /\ pc = "idle"
  /\ called = "split_patients_balanced"
  /\ \E sh \in Shuffles(DOMAIN patients_dict) :
       LET pl == SelectSeq(sh, LAMBDA p : balance \in DOMAIN patients_dict[p])
       IN  /\ patient_list' = sh
           /\ \E ul \in Shuffles(label_set(patients_dict, pl)) :
                 /\ unique_labels' = ul
                 /\ IF Len(ul) > 0 /\ split_list_raises(n)
                      THEN Raise("InvalidArgument")
                      ELSE Return(splits(patients_dict, pl, ul, n))
  /\ UNCHANGED <<patients_dict, n, called, cv_column, solver_calls>>
  /\ UNCHANGED <<timed_vars, caller_vars, queue_vars, extract_vars>>

\* variant: the label is taken with patients_dict[p].pop(balance), which
\* removes the header from the caller's records
split_patients_balanced_pop ==
  /\ pc = "idle"
  /\ called = "split_patients_balanced"
  /\ \E pl \in Shuffles(DOMAIN patients_dict) :
       /\ patient_list' = pl
       /\ IF missing_key(patients_dict, pl, balance)
            THEN /\ Raise("KeyError")
                 /\ unique_labels' = <<>>
            ELSE \E ul \in Shuffles(label_set(patients_dict, pl)) :
                   /\ unique_labels' = ul
                   /\ IF Len(ul) > 0 /\ split_list_raises(n)
                        THEN Raise("InvalidArgument")
                        ELSE Return(splits(patients_dict, pl, ul, n))
  /\ patients_dict' =
       [p \in DOMAIN patients_dict |->
          [h \in DOMAIN patients_dict[p] \ {balance} |-> patients_dict[p][h]]]
  /\ UNCHANGED <<n, called, cv_column, solver_calls>>
  /\ UNCHANGED <<timed_vars, caller_vars, queue_vars, extract_vars>>

split_patients_balanced ==
  /\ pc = "idle"
  /\ called = "split_patients_balanced"
  /\ \E pl \in Shuffles(DOMAIN patients_dict) :
       /\ patient_list' = pl
       /\ IF missing_key(patients_dict, pl, balance)
            THEN /\ Raise("KeyError")
                 /\ unique_labels' = <<>>
            ELSE \E ul \in Shuffles(label_set(patients_dict, pl)) :
                   /\ unique_labels' = ul
                   /\ IF Len(ul) > 0 /\ split_list_raises(n)
                        THEN Raise("InvalidArgument")
                        ELSE Return(splits(patients_dict, pl, ul, n))
  /\ UNCHANGED <<patients_dict, n, called, cv_column, solver_calls>>
  /\ UNCHANGED <<timed_vars, caller_vars, queue_vars, extract_vars>>

\* variant: a failed solver invocation falls back to the label-balanced split
split_patients_preserved_site_fallback ==
  /\ pc = "idle"
  /\ called = "split_patients_preserved_site"
  /\ \E pl \in Shuffles(DOMAIN patients_dict) :
       /\ patient_list' = pl
       /\ IF \/ missing_key(patients_dict, pl, balance)
             \/ missing_key(patients_dict, pl, "site")
            THEN /\ Raise("KeyError")
                 /\ cv_column' = <<>>
                 /\ solver_calls' = 0
            ELSE \/ /\ cv_column' = <<>>
                    /\ solver_calls' = 1
                    /\ \E ul \in Shuffles(label_set(patients_dict, pl)) :
                         IF split_list_raises(n)
                           THEN Raise("InvalidArgument")
                           ELSE Return(splits(patients_dict, pl, ul, n))
                 \/ /\ \E cv \in generate(patients_dict, pl, n) :
                         /\ cv_column' = cv
                         /\ Return(site_splits(pl, cv, n))
                    /\ solver_calls' = 1
  /\ UNCHANGED <<patients_dict, n, called, unique_labels>>
  /\ UNCHANGED <<timed_vars, caller_vars, queue_vars, extract_vars>>

\* unique_labels only feeds the log table of this function and is not
\* recorded
split_patients_preserved_site ==
  /\ pc = "idle"
  /\ called = "split_patients_preserved_site"
  /\ \E pl \in Shuffles(DOMAIN patients_dict) :
       /\ patient_list' = pl
       /\ IF missing_key(patients_dict, pl, balance)
            THEN /\ Raise("KeyError")
                 /\ cv_column' = <<>>
                 /\ solver_calls' = 0
            ELSE \/ \* the delayed import of the solver module fails
                    /\ Raise("SolverUnavailable")
                    /\ cv_column' = <<>>
                    /\ solver_calls' = 0
                 \/ \* site_list: a record without 'site'
                    /\ missing_key(patients_dict, pl, "site")
                    /\ Raise("KeyError")
                    /\ cv_column' = <<>>
                    /\ solver_calls' = 0
                 \/ \* cv.generate raises
                    /\ ~ missing_key(patients_dict, pl, "site")
                    /\ \E kind \in generate_errors : Raise(kind)
                    /\ cv_column' = <<>>
                    /\ solver_calls' = 1
                 \/ \* cv.generate returns the frame with its CV column
                    /\ ~ missing_key(patients_dict, pl, "site")
                    /\ \E cv \in generate(patients_dict, pl, n) :
                         /\ cv_column' = cv
                         /\ Return(site_splits(pl, cv, n))
                    /\ solver_calls' = 1
  /\ UNCHANGED <<patients_dict, n, called, unique_labels>>
  /\ UNCHANGED <<timed_vars, caller_vars, queue_vars, extract_vars>>

Next ==
  \/ split_patients
  \/ split_patients_balanced
  \/ split_patients_preserved_site

Spec == Init /\ [][Next]_vars

\* ------------------------------- split_patients_preserved_site, in time
\* The same call in three steps, with the clock of the solver invocation:
\* the function has no timeout or cancellation parameter, so nothing in it
\* reads `timeout`, the time its caller is prepared to wait.
MaxElapsed == MaxTimeout + 2

InitSolver ==
  /\ called = "split_patients_preserved_site"
  /\ patients_dict \in Cohorts(called)
  /\ n \in 0..MaxN
  /\ timeout \in 0..MaxTimeout
  /\ elapsed = 0
  /\ pc = "idle"
  /\ patient_list = <<>>
  /\ unique_labels = <<>>
  /\ cv_column = <<>>
  /\ result = <<>>
  /\ error = "none"
  /\ solver_calls = 0
  /\ caller_unused
  /\ queue_unused
  /\ extract_unused

\* lines 167-188: shuffle, outcome labels, delayed import, site list, frame
site_begin ==
  /\ pc = "idle"
  /\ called = "split_patients_preserved_site"
  /\ \E pl \in Shuffles(DOMAIN patients_dict) :
       /\ patient_list' = pl
       /\ IF missing_key(patients_dict, pl, balance)
            THEN /\ Raise("KeyError")
                 /\ solver_calls' = 0
            ELSE \/ /\ Raise("SolverUnavailable")
                    /\ solver_calls' = 0
                 \/ /\ missing_key(patients_dict, pl, "site")
                    /\ Raise("KeyError")
                    /\ solver_calls' = 0
                 \/ \* cv.generate is entered
                    /\ ~ missing_key(patients_dict, pl, "site")
                    /\ pc' = "solving"
                    /\ solver_calls' = 1
                    /\ UNCHANGED <<result, error>>
  /\ UNCHANGED <<patients_dict, n, called, unique_labels, cv_column>>
  /\ UNCHANGED <<timed_vars, caller_vars, queue_vars, extract_vars>>

\* the solver is still running: the call blocks in cv.generate
solver_runs ==
  /\ pc = "solving"
  /\ elapsed < MaxElapsed
  /\ elapsed' = elapsed + 1
  /\ UNCHANGED <<split_vars, timeout, caller_vars, queue_vars, extract_vars>>

\* lines 189-206: cv.generate raises, or returns and the rows are grouped
site_end ==
  /\ pc = "solving"
  /\ \/ /\ \E kind \in generate_errors : Raise(kind)
        /\ cv_column' = <<>>
     \/ \E cv \in generate(patients_dict, patient_list, n) :
          /\ cv_column' = cv
          /\ Return(site_splits(patient_list, cv, n))
  /\ UNCHANGED <<patients_dict, n, called, patient_list, unique_labels,
                 solver_calls>>
  /\ UNCHANGED <<timed_vars, caller_vars, queue_vars, extract_vars>>

NextSolver ==
  \/ site_begin
  \/ solver_runs
  \/ site_end

SpecSolver == InitSolver /\ [][NextSolver]_vars

\* ------------------------------------------------- independent callers
\* Several callers run split_patients or split_patients_balanced at once,
\* each on its own mapping; a call is two steps (the shuffle of its own key
\* list, then the split), and the steps of the callers interleave freely.
\* All that a call writes are its locals.
Callers == {1, 2}

\* the patient ids of caller c's mapping: no id belongs to two callers
CallerIds(c, k) == { 10 * c + i : i \in 1..k }

CallerCohorts(c) ==
  UNION { { d \in [CallerIds(c, k) -> [outcome : {1, 2}]] :
              \A p \in DOMAIN d : \A q \in DOMAIN d :
                 p < q => d[p].outcome <= d[q].outcome }
          : k \in 1..MaxCallerPatients }

InitConcurrent ==
  /\ c_patients \in { f \in [Callers -> UNION { CallerCohorts(c) : c \in Callers }] :
                        \A c \in Callers : f[c] \in CallerCohorts(c) }
  /\ c_n \in [Callers -> 1..MaxCallerPatients]
  /\ c_called \in [Callers -> {"split_patients", "split_patients_balanced"}]
  /\ c_pc = [c \in Callers |-> "idle"]
  /\ c_list = [c \in Callers |-> <<>>]
  /\ c_result = [c \in Callers |-> <<>>]
  /\ split_unused
  /\ timed_unused
  /\ queue_unused
  /\ extract_unused

\* variant: split_patients keeps patient_list in a module-level variable,
\* which every running call of split_patients reads
caller_shuffle_shared(c) ==
  /\ c_pc[c] = "idle"
  /\ \E pl \in Shuffles(DOMAIN c_patients[c]) :
       c_list' = [x \in Callers |->
                    IF x = c \/ ( /\ c_called[c] = "split_patients"
                                  /\ c_called[x] = "split_patients"
                                  /\ c_pc[x] = "shuffled" )
                      THEN pl ELSE c_list[x]]
  /\ c_pc' = [c_pc EXCEPT ![c] = "shuffled"]
  /\ UNCHANGED <<c_patients, c_n, c_called, c_result>>
  /\ UNCHANGED <<split_vars, timed_vars, queue_vars, extract_vars>>

\* patient_list = list(patients_dict.keys()); shuffle(patient_list)
caller_shuffle(c) ==
  /\ c_pc[c] = "idle"
  /\ \E pl \in Shuffles(DOMAIN c_patients[c]) :
       c_list' = [c_list EXCEPT ![c] = pl]
  /\ c_pc' = [c_pc EXCEPT ![c] = "shuffled"]
  /\ UNCHANGED <<c_patients, c_n, c_called, c_result>>
  /\ UNCHANGED <<split_vars, timed_vars, queue_vars, extract_vars>>

\* the rest of the call, on the caller's own mapping and list
caller_split(c) ==
  /\ c_pc[c] = "shuffled"
  /\ IF c_called[c] = "split_patients"
       THEN c_result' = [c_result EXCEPT ![c] = plain_splits(c_list[c], c_n[c])]
       ELSE \E ul \in Shuffles(label_set(c_patients[c], c_list[c])) :
              c_result' = [c_result EXCEPT
                             ![c] = splits(c_patients[c], c_list[c], ul, c_n[c])]
  /\ c_pc' = [c_pc EXCEPT ![c] = "returned"]
  /\ UNCHANGED <<c_patients, c_n, c_called, c_list>>
  /\ UNCHANGED <<split_vars, timed_vars, queue_vars, extract_vars>>

NextConcurrent ==
  \E c \in Callers :
    \/ caller_shuffle(c)
    \/ caller_split(c)

SpecConcurrent == InitConcurrent /\ [][NextConcurrent]_vars

\* ------------------------------------------------------------ _fill_queue
\* One producer running _fill_queue(slide_list, q, q_size, buffer) and the
\* consumers of q. q is a queue.Queue: put appends and counts an unfinished
\* task (and blocks while a bounded queue is full), get removes the head,
\* task_done counts one task off, join blocks until none is unfinished.
\* A path is its directory and its file name.
Paths == [dir : {"a", "b"}, base : {1, 2}]

\* the None that ends the queue
None == [dir |-> "None", base |-> 0]

basename(path) == path.base

\* join(buffer, basename(path))
buffered(path) == [dir |-> "buffer", base |-> basename(path)]

SlideLists ==
  UNION { { l \in [1..k -> Paths] :
              \A i \in 1..k : \A j \in 1..k : l[i] = l[j] => i = j }
          : k \in 0..MaxSlides }

InitQueue ==
  /\ slide_list \in SlideLists
  /\ buffer \in BOOLEAN
  /\ q_size \in 0..MaxQSize
  /\ q_maxsize \in {0, q_size}
  /\ q_items = <<>>
  /\ unfinished = 0
  /\ f_pc = "for"
  /\ f_idx = 1
  /\ warned = FALSE
  /\ put_log = <<>>
  /\ os_errors = 0
  /\ split_unused
  /\ timed_unused
  /\ caller_unused
  /\ extract_unused

\* q.put(item) can proceed: the queue is unbounded (maxsize 0) or not full
put_ready == q_maxsize = 0 \/ Len(q_items) < q_maxsize

q_put(item) ==
  /\ put_ready
  /\ q_items' = Append(q_items, item)
  /\ unfinished' = unfinished + 1
  /\ put_log' = Append(put_log, item)

\* variant: the bound is tested with <=
has_room_inclusive(qsize, size) == qsize <= size

\* if q.qsize() < q_size
has_room(qsize, size) == qsize < size

\* for path in slide_list: warned = False; the loop ends after the last path
fill_for ==
  /\ f_pc = "for"
  /\ IF f_idx <= Len(slide_list)
       THEN /\ warned' = FALSE
            /\ f_pc' = IF buffer THEN "while" ELSE "put"
       ELSE /\ f_pc' = "sentinel"
            /\ UNCHANGED warned
  /\ UNCHANGED <<slide_list, buffer, q_size, q_maxsize, q_items, unfinished,
                 f_idx, put_log, os_errors>>
  /\ UNCHANGED <<split_vars, timed_vars, caller_vars, extract_vars>>

\* while True: if q.qsize() < q_size: go on to copy; else: time.sleep(1) and
\* test again (the sleep leaves the state as it is)
fill_check ==
  /\ f_pc = "while"
  /\ has_room(Len(q_items), q_size)
  /\ f_pc' = "copy"
  /\ UNCHANGED <<slide_list, buffer, q_size, q_maxsize, q_items, unfinished,
                 f_idx, warned, put_log, os_errors>>
  /\ UNCHANGED <<split_vars, timed_vars, caller_vars, extract_vars>>

\* shutil.copy(path, buffered) succeeds
fill_copy ==
  /\ f_pc = "copy"
  /\ f_pc' = "put"
  /\ UNCHANGED <<slide_list, buffer, q_size, q_maxsize, q_items, unfinished,
                 f_idx, warned, put_log, os_errors>>
  /\ UNCHANGED <<split_vars, timed_vars, caller_vars, extract_vars>>

\* variant: after an OSError the loop goes on to the next path
fill_copy_fails_skip ==
  /\ f_pc = "copy"
  /\ os_errors < MaxOSErrors
  /\ os_errors' = os_errors + 1
  /\ warned' = TRUE
  /\ f_idx' = f_idx + 1
  /\ f_pc' = "for"
  /\ UNCHANGED <<slide_list, buffer, q_size, q_maxsize, q_items, unfinished,
                 put_log>>
  /\ UNCHANGED <<split_vars, timed_vars, caller_vars, extract_vars>>

\* shutil.copy raises OSError: warn once, sleep, and try the same path again
fill_copy_fails ==
  /\ f_pc = "copy"
  /\ os_errors < MaxOSErrors
  /\ os_errors' = os_errors + 1
  /\ warned' = TRUE
  /\ f_pc' = "while"
  /\ UNCHANGED <<slide_list, buffer, q_size, q_maxsize, q_items, unfinished,
                 f_idx, put_log>>
  /\ UNCHANGED <<split_vars, timed_vars, caller_vars, extract_vars>>

\* q.put(buffered); break   or   q.put(path)
fill_put ==
  /\ f_pc = "put"
  /\ q_put(IF buffer THEN buffered(slide_list[f_idx]) ELSE slide_list[f_idx])
  /\ f_idx' = f_idx + 1
  /\ f_pc' = "for"
  /\ UNCHANGED <<slide_list, buffer, q_size, q_maxsize, warned, os_errors>>
  /\ UNCHANGED <<split_vars, timed_vars, caller_vars, extract_vars>>

\* q.put(None)
fill_sentinel ==
  /\ f_pc = "sentinel"
  /\ q_put(None)
  /\ f_pc' = "join"
  /\ UNCHANGED <<slide_list, buffer, q_size, q_maxsize, f_idx, warned,
                 os_errors>>
  /\ UNCHANGED <<split_vars, timed_vars, caller_vars, extract_vars>>

\* q.join() returns, and with it _fill_queue
fill_join ==
  /\ f_pc = "join"
  /\ unfinished = 0
  /\ f_pc' = "done"
  /\ UNCHANGED <<slide_list, buffer, q_size, q_maxsize, q_items, unfinished,
                 f_idx, warned, put_log, os_errors>>
  /\ UNCHANGED <<split_vars, timed_vars, caller_vars, extract_vars>>

\* a consumer's q.get()
consumer_get ==
  /\ f_pc # "unused"
  /\ Len(q_items) > 0
  /\ q_items' = Tail(q_items)
  /\ UNCHANGED <<slide_list, buffer, q_size, q_maxsize, unfinished, f_pc,
                 f_idx, warned, put_log, os_errors>>
  /\ UNCHANGED <<split_vars, timed_vars, caller_vars, extract_vars>>

\* a consumer's q.task_done() for an item it got
consumer_task_done ==
  /\ f_pc # "unused"
  /\ unfinished > Len(q_items)
  /\ unfinished' = unfinished - 1
  /\ UNCHANGED <<slide_list, buffer, q_size, q_maxsize, q_items, f_pc, f_idx,
                 warned, put_log, os_errors>>
  /\ UNCHANGED <<split_vars, timed_vars, caller_vars, extract_vars>>

NextQueue ==
  \/ fill_for
  \/ fill_check
  \/ fill_copy
  \/ fill_copy_fails
  \/ fill_put
  \/ fill_sentinel
  \/ fill_join
  \/ consumer_get
  \/ consumer_task_done

SpecQueue == InitQueue /\ [][NextQueue]_vars

\* -------------------------------------------------------- _tile_extractor
\* A worker calls _tile_extractor on one slide path after another, all
\* calls writing to the same reports dict. What sf.WSI / sf.TMA / slide.qc
\* and slide.extract_tiles do is the input of a call: they succeed or raise.
\* the four error classes both functions catch
SkippedErrors ==
  {"MissingROIError", "SlideLoadError", "QCError", "TileCorruptionError"}

\* caught by `except (KeyboardInterrupt, SystemExit)` and raised again
ExitErrors == {"KeyboardInterrupt", "SystemExit"}

\* an exception of a class no except clause names, as the KeyError of
\* wsi_kwargs['tile_px'] when tma is set and the key is missing
OtherErrors == {"KeyError"}

\* what loading (and quality control of) the slide can do
PrepareEvents == {"slide"} \cup SkippedErrors \cup ExitErrors \cup OtherErrors

\* what slide.extract_tiles can do
ExtractEvents == {"report"} \cup SkippedErrors \cup ExitErrors \cup OtherErrors

\* _prepare_slide: the slide, None after one of the four errors, or the
\* exception it lets through
prepare_slide(ev) ==
  IF ev = "slide" THEN "slide"
  ELSE IF ev \in SkippedErrors THEN "None"
  ELSE ev

\* variant: the entry is written before extract_tiles has returned
reports_after_early(reps, path, slide, ext) ==
  IF slide = "slide" THEN reps \cup {path} ELSE reps

\* if slide is not None: report = slide.extract_tiles(..);
\* reports.update({path: report})
reports_after(reps, path, slide, ext) ==
  IF slide = "slide" /\ ext = "report" THEN reps \cup {path} ELSE reps

\* how the call ends: it returns, or an exception leaves it
extractor_ends(slide, ext) ==
  IF slide \notin {"slide", "None"} THEN "propagated"
  ELSE IF slide = "None" THEN "returned"
  ELSE IF ext = "report" \/ ext \in SkippedErrors THEN "returned"
  ELSE "propagated"

InitExtract ==
  /\ reports = {}
  /\ e_path = 0
  /\ e_prepare = "none"
  /\ e_extract = "none"
  /\ e_pc = "ready"
  /\ split_unused
  /\ timed_unused
  /\ caller_unused
  /\ queue_unused

\* one call of _tile_extractor(path, .., reports, ..) on the next path;
\* extract_tiles is only reached with a prepared slide
tile_extractor ==
  /\ e_pc \in {"ready", "returned"}
  /\ e_path < MaxTileSlides
  /\ e_path' = e_path + 1
  /\ \E pev \in PrepareEvents :
       \E xev \in IF prepare_slide(pev) = "slide"
                    THEN ExtractEvents ELSE {"none"} :
         /\ e_prepare' = pev
         /\ e_extract' = xev
         /\ reports' = reports_after(reports, e_path + 1,
                                     prepare_slide(pev), xev)
         /\ e_pc' = extractor_ends(prepare_slide(pev), xev)
  /\ UNCHANGED <<split_vars, timed_vars, caller_vars, queue_vars>>

NextExtract == tile_extractor

SpecExtract == InitExtract /\ [][NextExtract]_vars

\* ================================================================ claims
Patients == DOMAIN patients_dict
NPatients == Cardinality(Patients)

Returned(f) == called = f /\ pc = "returned"
Finished(f) == called = f /\ pc # "idle"

Groups == 1..Len(result)
Members(g) == { result[g][i] : i \in 1..Len(result[g]) }

\* the places <<group, position>> of the result that hold patient p
Places(p) ==
  { x \in UNION { { <<g, i>> : i \in 1..Len(result[g]) } : g \in Groups } :
      result[x[1]][x[2]] = p }

RECURSIVE SumLen(_)
SumLen(gs) == IF Len(gs) = 0 THEN 0 ELSE Len(Head(gs)) + SumLen(Tail(gs))

HasLabel(p, l) ==
  "outcome" \in DOMAIN patients_dict[p] /\ patients_dict[p].outcome = l

\* patients of group g that hold label l
LabelCount(g, l) ==
  Cardinality({ i \in 1..Len(result[g]) : HasLabel(result[g][i], l) })

\* patients of the cohort that hold label l
LabelTotal(l) == Cardinality({ p \in Patients : HasLabel(p, l) })

Floor(c, k) == c \div k
Ceil(c, k) == (c + k - 1) \div k

\* {A:X, B:X, C:Y, D:Y} as handed to the functions that do not read 'site'
LabelScenario ==
  <<[outcome |-> 1], [outcome |-> 1], [outcome |-> 2], [outcome |-> 2]>>

\* {A:X site 1, B:X site 1, C:Y site 2, D:Y site 2}
SiteScenario ==
  <<[outcome |-> 1, site |-> 1], [outcome |-> 1, site |-> 1],
    [outcome |-> 2, site |-> 2], [outcome |-> 2, site |-> 2]>>

\* ------------------------------------------------------------------- C1
\* C1: for 1 <= n <= len(patients), the groups returned by split_patients
\* and split_patients_balanced partition the input patient ids: every
\* patient in exactly one place of exactly one group, no foreign id, and the
\* group sizes sum to len(patients).
C1_Partition ==
  ( /\ Returned("split_patients") \/ Returned("split_patients_balanced")
    /\ 1 <= n
    /\ n <= NPatients )
  => /\ \A p \in Patients : Cardinality(Places(p)) = 1
     /\ \A g \in Groups : Members(g) \subseteq Patients
     /\ SumLen(result) = NPatients

C1_Witness ==
  /\ Returned("split_patients_balanced")
  /\ n = 3
  /\ NPatients = 4
  /\ Len(unique_labels) = 2
  /\ Len(result) = 3
  /\ \A p \in Patients : Cardinality(Places(p)) = 1

\* ------------------------------------------------------------------- C2
\* C2: in every split returned by split_patients_balanced, for every label
\* the per-group counts of patients holding it differ by at most 1 between
\* any two groups; for {A:X, B:X, C:Y, D:Y} and n = 2 each of the two
\* groups holds exactly one X and one Y patient.
C2_LabelBalance ==
  Returned("split_patients_balanced")
  => /\ \A l \in Labels : \A g \in Groups : \A h \in Groups :
          LabelCount(g, l) - LabelCount(h, l) <= 1
     /\ (patients_dict = LabelScenario /\ n = 2)
          => /\ Len(result) = 2
             /\ \A g \in Groups :
                  LabelCount(g, 1) = 1 /\ LabelCount(g, 2) = 1

C2_Witness ==
  /\ Returned("split_patients_balanced")
  /\ patients_dict = LabelScenario
  /\ n = 2
  /\ Members(1) = {1, 3}
  /\ Members(2) = {2, 4}

C4_InvalidArgument ==
  (Finished("split_patients") /\ (n <= 0 \/ n > NPatients))
  => /\ pc = "raised"
     /\ error = "InvalidArgument"
     /\ result = <<>>

\* ------------------------------------------------------------------- C5
\* C5: split_patients_balanced on a cohort with at least one record lacking
\* the balance header ends with KeyError and without a split, wherever that
\* patient falls in the shuffled order and whatever n is.
C5_KeyError ==
  ( /\ Finished("split_patients_balanced")
    /\ \E p \in Patients : balance \notin DOMAIN patients_dict[p] )
  => /\ pc = "raised"
     /\ error = "KeyError"
     /\ result = <<>>

\* the only record without the header is shuffled to the end, and n = 0
C5_Witness ==
  /\ Finished("split_patients_balanced")
  /\ error = "KeyError"
  /\ n = 0
  /\ NPatients = 3
  /\ balance \notin DOMAIN patients_dict[patient_list[3]]
  /\ balance \in DOMAIN patients_dict[patient_list[1]]
  /\ balance \in DOMAIN patients_dict[patient_list[2]]

\* ------------------------------------------------------------------- C6
\* C6: a call of split_patients_preserved_site invokes the solver at most
\* once; it returns only a split grouped by the CV column of a successful
\* solver invocation, and it otherwise ends with the error it met
\* (SolverUnavailable, InfeasibleSplit, or KeyError) and no split.
C6_SolverFailure ==
  Finished("split_patients_preserved_site")
  => /\ solver_calls <= 1
     /\ pc = "returned"
          => /\ solver_calls = 1
             /\ Len(cv_column) = Len(patient_list)
             /\ LET members == [g \in Groups |-> Members(g)]
                IN  \A i \in 1..Len(patient_list) : \A g \in Groups :
                      patient_list[i] \in members[g] <=> cv_column[i] = str(g)
     /\ pc = "raised"
          => /\ result = <<>>
             /\ cv_column = <<>>
             /\ error \in {"SolverUnavailable", "InfeasibleSplit", "KeyError"}

C6_Witness ==
  /\ Finished("split_patients_preserved_site")
  /\ pc = "raised"
  /\ error = "InfeasibleSplit"
  /\ solver_calls = 1
  /\ patients_dict = SiteScenario
  /\ n = 2
  /\ result = <<>>

\* ------------------------------------------------------------------- C7
\* C7: for 1 <= n <= len(patients), split_patients returns the shuffled
\* list cut into n contiguous chunks, each of floor(len/n) or ceil(len/n)
\* patients.
C7_PlainSizes ==
  (Returned("split_patients") /\ 1 <= n /\ n <= NPatients)
  => /\ Len(result) = n
     /\ flatten(result) = patient_list
     /\ \A g \in Groups :
          Len(result[g]) \in {Floor(NPatients, n), Ceil(NPatients, n)}

C7_Witness ==
  /\ Returned("split_patients")
  /\ n = 3
  /\ NPatients = 4
  /\ Len(result[1]) = 2
  /\ Len(result[2]) = 1
  /\ Len(result[3]) = 1

\* ------------------------------------------------------------------- C8
\* C8 as stated: in split_patients and in split_patients_balanced alike,
\* each group's count of every outcome category is floor(c/n) or ceil(c/n).
C8_AllModes ==
  ( /\ Returned("split_patients") \/ Returned("split_patients_balanced")
    /\ n >= 1 )
  => \A l \in Labels : \A g \in Groups :
       LabelCount(g, l) \in {Floor(LabelTotal(l), n), Ceil(LabelTotal(l), n)}

\* C8 as amended: split_patients_balanced gives each group floor(c/n) or
\* ceil(c/n) patients of every outcome category; split_patients gives that
\* only for the cohort as a whole (group sizes floor(len/n) or ceil(len/n)),
\* not per category.
C8_BalancedModeOnly ==
  /\ (Returned("split_patients_balanced") /\ n >= 1)
       => \A l \in Labels : \A g \in Groups :
            LabelCount(g, l)
              \in {Floor(LabelTotal(l), n), Ceil(LabelTotal(l), n)}
  /\ (Returned("split_patients") /\ n >= 1)
       => \A g \in Groups :
            Len(result[g]) \in {Floor(NPatients, n), Ceil(NPatients, n)}

\* split_patients returns even groups that hold 2 and 0 patients of a label
C8_Witness ==
  /\ Returned("split_patients")
  /\ patients_dict = LabelScenario
  /\ n = 2
  /\ Len(result[1]) = 2
  /\ Len(result[2]) = 2
  /\ LabelCount(1, 1) = 2
  /\ LabelCount(2, 1) = 0

\* ------------------------------------------------------------------- C9
\* C9: with n = 1, split_patients and split_patients_balanced return one
\* group holding all patients; with n = len(patients), split_patients
\* returns len(patients) groups of one patient each.
C9_Boundary ==
  /\ ( /\ Returned("split_patients") \/ Returned("split_patients_balanced")
       /\ n = 1 )
       => /\ Len(result) = 1
          /\ Members(1) = Patients
          /\ Len(result[1]) = NPatients
  /\ (Returned("split_patients") /\ n = NPatients)
       => /\ Len(result) = NPatients
          /\ \A g \in Groups : Len(result[g]) = 1

C9_Witness ==
  /\ Returned("split_patients")
  /\ NPatients = 3
  /\ n = 3
  /\ Len(result) = 3
  /\ \A g \in Groups : Len(result[g]) = 1

\* ------------------------------------------------------------------ C10
\* C10: in split_patients_balanced, a label held by c patients leaves
\* r = c mod n; groups 0..r-1 get floor(c/n)+1 of its patients and groups
\* r..n-1 get floor(c/n) (groups are numbered from 1 here).
C10_RemainderFirst ==
  (Returned("split_patients_balanced") /\ n >= 1)
  => /\ Len(result) = n
     /\ \A l \in Labels : \A g \in Groups :
          LabelCount(g, l) =
            Floor(LabelTotal(l), n)
              + (IF g <= LabelTotal(l) % n THEN 1 ELSE 0)

C10_Witness ==
  /\ Returned("split_patients_balanced")
  /\ n = 3
  /\ LabelTotal(1) = 2
  /\ LabelTotal(2) = 2
  /\ LabelCount(1, 1) = 1
  /\ LabelCount(2, 1) = 1
  /\ LabelCount(3, 1) = 0

\* ------------------------------------------------------------------ C11
\* C11: when the solver succeeded, the patient of every row sits exactly
\* once in the returned groups, in the group numbered like its fold index
\* (group k, 0-based, for fold k+1; groups are numbered from 1 here), and
\* the groups partition the input patient set.
C11_GroupedByFold ==
  Returned("split_patients_preserved_site")
  => /\ \A i \in 1..Len(patient_list) : \A f \in 1..n :
          cv_column[i] = str(f)
          => /\ Cardinality(Places(patient_list[i])) = 1
             /\ \A x \in Places(patient_list[i]) : x[1] = f
     /\ \A p \in Patients : Cardinality(Places(p)) = 1
     /\ \A g \in Groups : Members(g) \subseteq Patients
     /\ SumLen(result) = NPatients

C11_Witness ==
  /\ Returned("split_patients_preserved_site")
  /\ patients_dict = SiteScenario
  /\ n = 3
  /\ patient_list = <<4, 1, 3, 2>>
  /\ cv_column = <<str(3), str(2), str(3), str(2)>>
  /\ result = <<<<>>, <<1, 2>>, <<4, 3>>>>

\* ------------------------------------------------------------------ C12
\* C12: no step of split_patients, split_patients_balanced or
\* split_patients_preserved_site changes the patient mapping, whether the
\* call returns or raises.
C12_InputUnchanged == [][patients_dict' = patients_dict]_vars

C12_Witness ==
  /\ Finished("split_patients_preserved_site")
  /\ pc = "raised"
  /\ error = "SolverUnavailable"
  /\ solver_calls = 0
  /\ patients_dict = SiteScenario

\* ------------------------------------------------------------------ C15
\* C15: every call that returns with n >= 1 returns exactly n groups,
\* numbered in fold order, some of them possibly empty.
C15_ExactlyNGroups ==
  (pc = "returned" /\ n >= 1)
  => /\ Len(result) = n
     /\ DOMAIN result = 1..n

\* one site, three folds: two of the three groups are empty
C15_Witness ==
  /\ Returned("split_patients_preserved_site")
  /\ n = 3
  /\ NPatients = 2
  /\ Len(result) = 3
  /\ Len(result[1]) = 0
  /\ Len(result[2]) = 2
  /\ Len(result[3]) = 0

\* ------------------------------------------------------------------ C16
\* C16: in split_patients_balanced the group sizes never increase with the
\* group index, the first and the last group differ by at most the number
\* of distinct labels, and by exactly that number when every label's count
\* leaves the same nonzero remainder modulo n.
C16_TotalSizes ==
  (Returned("split_patients_balanced") /\ n >= 1)
  => /\ \A g \in Groups : \A h \in Groups :
          g < h => Len(result[g]) >= Len(result[h])
     /\ Len(result[1]) - Len(result[n]) <= Len(unique_labels)
     /\ ( /\ Len(unique_labels) >= 1
          /\ \E r \in 1..(n - 1) :
               \A j \in 1..Len(unique_labels) :
                 LabelTotal(unique_labels[j]) % n = r )
          => Len(result[1]) - Len(result[n]) = Len(unique_labels)

\* every label has one patient and n = 3: sizes 2, 0, 0
C16_Witness ==
  /\ Returned("split_patients_balanced")
  /\ n = 3
  /\ NPatients = 2
  /\ Len(unique_labels) = 2
  /\ Len(result[1]) = 2
  /\ Len(result[2]) = 0
  /\ Len(result[3]) = 0

\* ------------------------------------------------------------------ C14
\* C14: once the solver invocation has run longer than the caller's
\* timeout the call does not go on blocking and returns no split: it ends
\* with InfeasibleSplit.
C14_TimeoutEndsCall ==
  (called = "split_patients_preserved_site" /\ elapsed > timeout)
  => /\ pc # "returned"
     /\ pc = "solving" => elapsed <= timeout + 1
     /\ pc = "raised" => error = "InfeasibleSplit"

\* ------------------------------------------------------------------ C13
\* C13: under every interleaving of independent callers, each returned
\* result has that caller's n groups and holds every patient of that
\* caller's own mapping exactly once and no other id.
PlacesIn(res, p) ==
  { x \in UNION { { <<g, i>> : i \in 1..Len(res[g]) } : g \in 1..Len(res) } :
      res[x[1]][x[2]] = p }

C13_EachCallerOwnPartition ==
  \A c \in DOMAIN c_pc :
    c_pc[c] = "returned"
    => /\ Len(c_result[c]) = c_n[c]
       /\ \A p \in DOMAIN c_patients[c] :
            Cardinality(PlacesIn(c_result[c], p)) = 1
       /\ \A g \in 1..Len(c_result[c]) : \A i \in 1..Len(c_result[c][g]) :
            c_result[c][g][i] \in DOMAIN c_patients[c]
       /\ SumLen(c_result[c]) = Cardinality(DOMAIN c_patients[c])

\* caller 2 shuffled and returned while caller 1 was between its two steps
C13_Witness ==
  /\ DOMAIN c_pc = Callers
  /\ c_pc[1] = "shuffled"
  /\ c_called[1] = "split_patients"
  /\ c_list[1] = <<12, 11>>
  /\ c_pc[2] = "returned"
  /\ c_called[2] = "split_patients"
  /\ c_n[2] = 2
  /\ c_result[2] = <<<<22>>, <<21>>>>

\* ------------------------------------------------------------------ C17
\* what _fill_queue is to put, in order: every path of slide_list (its
\* buffered copy when a buffer is given), then None
ExpectedPuts ==
  [i \in 1..Len(slide_list) |->
     IF buffer THEN buffered(slide_list[i]) ELSE slide_list[i]] \o <<None>>

\* C17: what _fill_queue has put is at every moment a prefix of the paths
\* of slide_list in order (their buffered copies with a buffer) followed by
\* one None, OSError retries included; it has put all of it, None last,
\* before it joins, and it returns only when no put item is unfinished.
C17_FillQueue ==
  f_pc # "unused"
  => /\ Len(put_log) <= Len(ExpectedPuts)
     /\ put_log = SubSeq(ExpectedPuts, 1, Len(put_log))
     /\ f_pc \in {"join", "done"} <=> put_log = ExpectedPuts
     /\ f_pc = "done" => (unfinished = 0 /\ q_items = <<>>)

C17_Witness ==
  /\ f_pc = "done"
  /\ buffer
  /\ Len(slide_list) = 2
  /\ basename(slide_list[1]) = basename(slide_list[2])
  /\ os_errors = 1
  /\ put_log = ExpectedPuts

\* ------------------------------------------------------------------ C18
\* C18: with a buffer, a path is copied and put only while fewer than
\* q_size items are queued, so at most q_size paths are ever queued; the
\* producer passes a path only by putting it; the closing None is put
\* whatever the queue holds, so the queue can hold q_size + 1 items.
QueuedPaths == { i \in 1..Len(q_items) : q_items[i] # None }

C18_BufferedBound ==
  (f_pc # "unused" /\ buffer)
  => /\ Cardinality(QueuedPaths) <= q_size
     /\ Len(q_items) <= q_size + 1
     /\ f_pc \in {"copy", "put"} => Len(q_items) < q_size
     /\ f_pc \in {"for", "while", "copy", "put"} => Len(put_log) = f_idx - 1

\* q_size paths wait in the queue and None has been put behind them
C18_Witness ==
  /\ buffer
  /\ q_size = 2
  /\ Len(q_items) = 3
  /\ q_items[1] # None
  /\ q_items[2] # None
  /\ q_items[3] = None
  /\ f_pc = "join"

\* ------------------------------------------------------------------ C19
\* C19 as stated, its last part: a call of _tile_extractor that does not
\* return normally was left by KeyboardInterrupt or SystemExit.
C19_OnlyExitsPropagate ==
  e_pc = "propagated"
  => (e_prepare \in ExitErrors \/ e_extract \in ExitErrors)

\* C19 as amended: a call adds the entry of its path to reports exactly
\* when the slide was prepared and extract_tiles returned, and changes no
\* other entry; after one of the four caught errors it returns normally
\* with reports unchanged; every other exception, KeyboardInterrupt and
\* SystemExit among them, propagates to the caller with reports unchanged.
C19_ReportsIffExtracted ==
  [][ /\ reports' \ {e_path'} = reports
      /\ e_path' \in reports' <=> (e_prepare' = "slide" /\ e_extract' = "report")
      /\ (e_prepare' \in SkippedErrors \/ e_extract' \in SkippedErrors)
           => (e_pc' = "returned" /\ reports' = reports)
      /\ e_pc' = "propagated"
           <=> ( \/ e_prepare' \in ExitErrors \cup OtherErrors
                 \/ e_extract' \in ExitErrors \cup OtherErrors )
      /\ e_pc' = "propagated" => reports' = reports
    ]_extract_vars

\* after a reported slide, a slide whose extraction met a corrupt tile
C19_Witness ==
  /\ e_path = 2
  /\ reports = {1}
  /\ e_prepare = "slide"
  /\ e_extract = "TileCorruptionError"
  /\ e_pc = "returned"

====
